---------------------------- MODULE Spec2Model ----------------------------
(***************************************************************************)
(* Model of the garden controller (src/app.c, main loop in                 *)
(* src/unnamed/part_000): the schedule engine app_calculate_state, the     *)
(* profile store in flash (app_save_profiles / app_reload_profiles) and    *)
(* the encoder/click navigation state machine.                             *)
(*                                                                         *)
(* Time is counted in whole seconds since boot.  absolute_time_t is an     *)
(* unsigned 64-bit microsecond count; app_start_time is kept here as a     *)
(* signed number of seconds whose value modulo 2^64 us is the C value, so  *)
(* elapsed times that wrap below zero are computed as the C code does.     *)
(***************************************************************************)
EXTENDS Integers, Sequences, FiniteSets, TLC

----------------------------------------------------------------------------
(* Program constants                                                       *)

MAX_PROFILES == 5
MAX_PERIODS == 6
PUMP_RUN_MINUTES == 5
PUMP_WAIT_MINUTES == 30
PUMP_TOTAL_MINUTES == PUMP_RUN_MINUTES + PUMP_WAIT_MINUTES

ProfileIds == 0 .. (MAX_PROFILES - 1)
PeriodIds == 0 .. (MAX_PERIODS - 1)

----------------------------------------------------------------------------
(* Bounds of the model                                                     *)

\* number of clicks and non-zero rotations explored after boot
MaxInputs == 6
\* number of clicks and non-zero rotations explored once the period editor
\* is open
MaxEditInputs == 3

\* number of passes of the main loop explored for the button
MaxPasses == 7
\* the clock is advanced up to this many minutes after boot
MaxMinutes == 5

----------------------------------------------------------------------------
(* Data                                                                    *)

Period(d, wr, bl) ==
    [duration |-> d, led_white_red_power |-> wr, led_blue_power |-> bl]

\* {.duration = 0}: the remaining fields of the initializer are zero
Disabled == Period(0, 0, 0)

Periods2(p0, p1) ==
    [i \in PeriodIds |-> IF i = 0 THEN p0 ELSE IF i = 1 THEN p1 ELSE Disabled]

DefaultProfiles ==
    [p \in ProfileIds |->
        CASE p = 0 -> [name |-> "VEG",
                       periods |-> Periods2(Period(60 * 14, 100, 100), Period(60 * 10, 0, 0))]
          [] p = 1 -> [name |-> "FLOWER",
                       periods |-> Periods2(Period(60 * 12, 100, 0), Period(60 * 12, 0, 0))]
          [] p = 2 -> [name |-> "FRUIT",
                       periods |-> Periods2(Period(60 * 16, 100, 0), Period(60 * 8, 0, 0))]
          [] p = 3 -> [name |-> "CUSTOM 1", periods |-> Periods2(Disabled, Disabled)]
          [] p = 4 -> [name |-> "CUSTOM 2", periods |-> Periods2(Disabled, Disabled)]]

\* static app_state_t current_app_state = {.white_red = -1, .blue = -1}
InitialAppState ==
    [period_index |-> 0, white_red |-> -1, blue |-> -1, pump |-> FALSE,
     pump_minutes_left |-> 0, period_minutes_left |-> 0]

\* #define DEBOUNCE_MS 50
DEBOUNCE_MS == 50

\* sleep_ms(500) before the loop starts
StartupMs == 500

\* the locals of main before the first pass of the loop: last_button_state
\* and last_changed as initialized, ms the clock (milliseconds) the next
\* pass will read.  pin is the level the last pass read from PIN_BUTTON
\* (pulled up: 1 released, 0 pressed), level_since the clock of the first
\* pass of the present run of equal reads, clicks the number of
\* app_on_click calls, fired whether one was made since the read level last
\* changed, passes the number of passes made.
ButtonAtReset ==
    [last_button_state |-> 0, last_changed |-> 0, ms |-> StartupMs,
     pin |-> 1, level_since |-> 0, clicks |-> 0, fired |-> FALSE, passes |-> 0]

VARIABLES
    profiles,                      \* profile_t profiles[MAX_PROFILES]
    current_profile,               \* index of the profile in use
    now,                           \* get_absolute_time(), seconds since boot
    app_start_time,                \* shiftable baseline (seconds, signed)
    app_start_time_without_shift,  \* baseline of the pump cadence
    last_encoder_time,             \* time of the last encoder/click event
    current_app_state,             \* app_state_t
    current_app_mode,              \* app_mode_t
    menu_profile_index,
    current_edit_period_index,
    current_edit_value,            \* edit_mode_t, 0..3
    current_top_menu_action,       \* top_menu_action_t, 0..3
    time_shift_hours,
    flash,                         \* the sector at FLASH_TARGET_OFFSET
    pins,                          \* what app_apply_state last wrote to the pins
    phase,                         \* "init" | "run" | "bootloader"
    last,                          \* what the last handler did (see Did)
    noshift_pump,                  \* pump fields of the same run without time shift
    saved,                         \* the last save: what it wrote, and whether it completed
    inputs,                        \* clicks and non-zero rotations handled so far
    button                         \* the locals of main that debounce the button

vars == <<profiles, current_profile, now, app_start_time,
          app_start_time_without_shift, last_encoder_time, current_app_state,
          current_app_mode, menu_profile_index, current_edit_period_index,
          current_edit_value, current_top_menu_action, time_shift_hours,
          flash, pins, phase, last, noshift_pump, saved, inputs, button>>

----------------------------------------------------------------------------
(* Schedule engine: app_calculate_state                                    *)

\* An elapsed time in minutes as the C code computes it:
\*   uint64_t us = to_us_since_boot(now) - to_us_since_boot(start);
\*   uint32_t minutes = us / 1000000 / 60;
\* With now >= start this is the elapsed minutes.  With now < start the
\* 64-bit difference wraps to 2^64 - d us; 2^64 us / 1000000 =
\* 18446744073709 s = 60 * 307445734561 + 49 s, and 307445734561 truncated
\* to 32 bits is 2503056545 = WrapHi * WrapScale + WrapLo.  A wrapped value
\* is kept as its (negative) offset m from that number.
WrapHi == 25030
WrapScale == 100000
WrapLo == 56545

ElapsedMinutes(t, start) ==
    IF t >= start
    THEN [wrapped |-> FALSE, m |-> (t - start) \div 60]
    ELSE [wrapped |-> TRUE, m |-> (49 - (start - t)) \div 60]

\* minutes % modulus
MinutesMod(e, modulus) ==
    IF e.wrapped
    THEN ((WrapHi % modulus) * (WrapScale % modulus) + WrapLo + e.m) % modulus
    ELSE e.m % modulus

\* if(minutes_since_start >= profile_total_minutes) minutes_since_start %= ...
\* (a wrapped value exceeds every total the six int durations can add up to)
LightPosition(e, total) ==
    IF e.wrapped \/ e.m >= total THEN MinutesMod(e, total) ELSE e.m

RECURSIVE SumDurations(_, _)
SumDurations(profile, i) ==
    IF i >= MAX_PERIODS THEN 0
    ELSE profile.periods[i].duration + SumDurations(profile, i + 1)

profile_total_minutes(profile) == SumDurations(profile, 0)

\* a faulty variant of PumpBaseline: the shifted baseline is used
PumpBaselineShifted(start, start_without_shift) == start

\* the baseline the pump cadence is measured from
PumpBaseline(start, start_without_shift) == start_without_shift

\* a faulty variant of PumpBlock: every evaluation reports a change
PumpBlockAlwaysChanged(st, p) ==
    IF p < PUMP_RUN_MINUTES
    THEN [state |-> [st EXCEPT !.pump = TRUE,
                               !.pump_minutes_left = PUMP_RUN_MINUTES - p],
          ret |-> TRUE]
    ELSE [state |-> [st EXCEPT !.pump = FALSE,
                               !.pump_minutes_left = PUMP_TOTAL_MINUTES - p],
          ret |-> TRUE]

\* the pump block; p is pump_cycle_position
PumpBlock(st, p) ==
    IF p < PUMP_RUN_MINUTES
    THEN IF ~st.pump
         THEN [state |-> [st EXCEPT !.pump = TRUE,
                                    !.pump_minutes_left = PUMP_RUN_MINUTES - p],
               ret |-> TRUE]
         ELSE [state |-> [st EXCEPT !.pump_minutes_left = PUMP_RUN_MINUTES - p],
               ret |-> (st.pump_minutes_left # PUMP_RUN_MINUTES - p)]
    ELSE IF st.pump
         THEN [state |-> [st EXCEPT !.pump = FALSE,
                                    !.pump_minutes_left = PUMP_TOTAL_MINUTES - p],
               ret |-> TRUE]
         ELSE [state |-> [st EXCEPT !.pump_minutes_left = PUMP_TOTAL_MINUTES - p],
               ret |-> (st.pump_minutes_left # PUMP_TOTAL_MINUTES - p)]

\* a faulty variant of InPeriod: the time left is counted from the period's
\* own duration instead of from its end in the cycle
InPeriodOwnDuration(st, period, i, period_end, minutes, ret) ==
    IF \/ st.white_red # period.led_white_red_power
       \/ st.blue # period.led_blue_power
       \/ st.period_minutes_left # period.duration - minutes
       \/ st.period_index # i
    THEN [state |-> [st EXCEPT !.white_red = period.led_white_red_power,
                               !.blue = period.led_blue_power,
                               !.period_minutes_left = period.duration - minutes,
                               !.period_index = i],
          ret |-> TRUE, branch |-> "in_period"]
    ELSE [state |-> st, ret |-> ret, branch |-> "in_period"]

\* a faulty variant of InPeriod: with the light fields unchanged it reports no
\* change, whatever the pump block found
InPeriodDropsPumpFlag(st, period, i, period_end, minutes, ret) ==
    IF \/ st.white_red # period.led_white_red_power
       \/ st.blue # period.led_blue_power
       \/ st.period_minutes_left # period_end - minutes
       \/ st.period_index # i
    THEN [state |-> [st EXCEPT !.white_red = period.led_white_red_power,
                               !.blue = period.led_blue_power,
                               !.period_minutes_left = period_end - minutes,
                               !.period_index = i],
          ret |-> TRUE, branch |-> "in_period"]
    ELSE [state |-> st, ret |-> FALSE, branch |-> "in_period"]

\* "we are in this period": period i ends at minute period_end
InPeriod(st, period, i, period_end, minutes, ret) ==
    IF \/ st.white_red # period.led_white_red_power
       \/ st.blue # period.led_blue_power
       \/ st.period_minutes_left # period_end - minutes
       \/ st.period_index # i
    THEN [state |-> [st EXCEPT !.white_red = period.led_white_red_power,
                               !.blue = period.led_blue_power,
                               !.period_minutes_left = period_end - minutes,
                               !.period_index = i],
          ret |-> TRUE, branch |-> "in_period"]
    ELSE [state |-> st, ret |-> ret, branch |-> "in_period"]

\* "no active period, turn off leds"
NoActivePeriod(st, ret) ==
    IF st.white_red # 0 \/ st.blue # 0 \/ st.period_minutes_left # 0
    THEN [state |-> [st EXCEPT !.white_red = 0, !.blue = 0,
                               !.period_minutes_left = 0],
          ret |-> TRUE, branch |-> "no_period"]
    ELSE [state |-> st, ret |-> ret, branch |-> "no_period"]

\* if(period->duration == 0) continue;
SkipPeriod(period) == period.duration = 0

\* a faulty variant of PeriodLoop: elapsed_minutes is not accumulated
RECURSIVE PeriodLoopNoAccumulate(_, _, _, _, _, _)
PeriodLoopNoAccumulate(st, profile, minutes, i, elapsed_minutes, ret) ==
    IF i >= MAX_PERIODS THEN NoActivePeriod(st, ret)
    ELSE LET period == profile.periods[i]
         IN  IF SkipPeriod(period)
             THEN PeriodLoopNoAccumulate(st, profile, minutes, i + 1, elapsed_minutes, ret)
             ELSE IF minutes < elapsed_minutes + period.duration
                  THEN InPeriod(st, period, i, elapsed_minutes + period.duration,
                                minutes, ret)
                  ELSE PeriodLoopNoAccumulate(st, profile, minutes, i + 1,
                                              elapsed_minutes, ret)

\* the for loop over the periods, from period i with elapsed_minutes
RECURSIVE PeriodLoop(_, _, _, _, _, _)
PeriodLoop(st, profile, minutes, i, elapsed_minutes, ret) ==
    IF i >= MAX_PERIODS THEN NoActivePeriod(st, ret)
    ELSE LET period == profile.periods[i]
         IN  IF SkipPeriod(period)
             THEN PeriodLoop(st, profile, minutes, i + 1, elapsed_minutes, ret)
             ELSE IF minutes < elapsed_minutes + period.duration
                  THEN InPeriod(st, period, i, elapsed_minutes + period.duration,
                                minutes, ret)
                  ELSE PeriodLoop(st, profile, minutes, i + 1,
                                  elapsed_minutes + period.duration, ret)

\* a faulty variant of NoActiveProfile: the powers are left as they are
NoActiveProfileKeep(st) == [state |-> st, ret |-> FALSE, branch |-> "no_profile"]

\* if(profile_total_minutes == 0) { ... return }
NoActiveProfile(st) ==
    IF st.white_red # 0 \/ st.blue # 0
    THEN [state |-> [st EXCEPT !.white_red = 0, !.blue = 0],
          ret |-> TRUE, branch |-> "no_profile"]
    ELSE [state |-> st, ret |-> FALSE, branch |-> "no_profile"]

\* app_calculate_state() on state st at time t: the new state and the result
app_calculate_state(st, profile, t, start, start_without_shift) ==
    LET total == profile_total_minutes(profile)
    IN  IF total = 0 THEN NoActiveProfile(st)
        ELSE LET pump_cycle_position ==
                     MinutesMod(ElapsedMinutes(t, PumpBaseline(start, start_without_shift)),
                                PUMP_TOTAL_MINUTES)
                 pumped == PumpBlock(st, pump_cycle_position)
                 minutes == LightPosition(ElapsedMinutes(t, start), total)
             IN  PeriodLoop(pumped.state, profile, minutes, 0, 0, pumped.ret)

----------------------------------------------------------------------------
(* Flash store: app_save_profiles, app_reload_profiles                     *)

\* memcpy of an int to flash and back: four bytes, little endian, two's
\* complement (\div and % round towards minus infinity)
IntToBytes(n) ==
    <<n % 256, (n \div 256) % 256, (n \div 65536) % 256, (n \div 16777216) % 256>>

\* a faulty variant of BytesToInt: only the low byte is read back
BytesToIntLowByte(b) == b[1]

BytesToInt(b) ==
    b[1] + 256 * b[2] + 65536 * b[3]
         + 16777216 * (IF b[4] >= 128 THEN b[4] - 256 ELSE b[4])

\* flash_buffer[0..3]
MagicBytes == <<165, 90, 165, 90>>

ErasedWord == <<255, 255, 255, 255>>
ZeroWord == <<0, 0, 0, 0>>
\* char name[16] holding sixteen bytes 0xFF, and sixteen bytes 0
ErasedName == "<0xFF x 16>"
ZeroName == ""

\* the bytes of the sector that are read back, as the fields they hold:
\* [0..3] magic, [4..7] current_profile, [8..] profiles
FlashImage(magic, cp, profs) ==
    [magic |-> magic,
     current_profile |-> IntToBytes(cp),
     profiles |-> [p \in ProfileIds |->
        [name |-> profs[p].name,
         periods |-> [i \in PeriodIds |->
            [duration |-> IntToBytes(profs[p].periods[i].duration),
             led_white_red_power |-> IntToBytes(profs[p].periods[i].led_white_red_power),
             led_blue_power |-> IntToBytes(profs[p].periods[i].led_blue_power)]]]]]

\* a sector filled with one byte value
FilledFlash(word, name) ==
    [magic |-> word,
     current_profile |-> word,
     profiles |-> [p \in ProfileIds |->
        [name |-> name,
         periods |-> [i \in PeriodIds |->
            [duration |-> word, led_white_red_power |-> word,
             led_blue_power |-> word]]]]]

\* the sector after flash_range_erase
ErasedFlash == FilledFlash(ErasedWord, ErasedName)
ZeroFlash == FilledFlash(ZeroWord, ZeroName)

\* what flash_buffer holds when app_save_profiles programs it
SaveImage(cp, profs) == FlashImage(MagicBytes, cp, profs)

\* Layout of the buffer: sizeof(int), sizeof(name), sizeof(period_t),
\* sizeof(profile_t); flash_range_program writes it page by page in
\* ascending address order.
SizeofInt == 4
SizeofName == 16
SizeofPeriod == 3 * SizeofInt
SizeofProfile == SizeofName + MAX_PERIODS * SizeofPeriod
FLASH_PAGE_SIZE == 256
OffsetProfiles == 4 + SizeofInt
OffsetName(p) == OffsetProfiles + p * SizeofProfile
OffsetField(p, i, f) == OffsetName(p) + SizeofName + i * SizeofPeriod + f * SizeofInt
\* bytes of the buffer that are read back
ImageSize == OffsetProfiles + MAX_PROFILES * SizeofProfile

\* the sector when power is lost after the erase and after the first n
\* bytes of the buffer were programmed (n does not split an int or a name
\* other than the magic)
PartlyProgrammed(image, n) ==
    LET done(offset) == offset + SizeofInt <= n
        named(offset) == offset + SizeofName <= n
        byte(b) == IF b <= n THEN image.magic[b] ELSE 255
    IN  [magic |-> <<byte(1), byte(2), byte(3), byte(4)>>,
         current_profile |-> IF done(4) THEN image.current_profile ELSE ErasedWord,
         profiles |-> [p \in ProfileIds |->
            [name |-> IF named(OffsetName(p)) THEN image.profiles[p].name ELSE ErasedName,
             periods |-> [i \in PeriodIds |->
                [duration |-> IF done(OffsetField(p, i, 0))
                              THEN image.profiles[p].periods[i].duration ELSE ErasedWord,
                 led_white_red_power |-> IF done(OffsetField(p, i, 1))
                              THEN image.profiles[p].periods[i].led_white_red_power
                              ELSE ErasedWord,
                 led_blue_power |-> IF done(OffsetField(p, i, 2))
                              THEN image.profiles[p].periods[i].led_blue_power
                              ELSE ErasedWord]]]]]

\* the test of address[0..3] in app_reload_profiles
MagicValid(f) ==
    ~(f.magic[1] # 165 \/ f.magic[2] # 90 \/ f.magic[3] # 165 \/ f.magic[4] # 90)

\* memcpy(&profiles, address + 4 + sizeof(current_profile), sizeof(profiles))
LoadedProfiles(f) ==
    [p \in ProfileIds |->
        [name |-> f.profiles[p].name,
         periods |-> [i \in PeriodIds |->
            [duration |-> BytesToInt(f.profiles[p].periods[i].duration),
             led_white_red_power |-> BytesToInt(f.profiles[p].periods[i].led_white_red_power),
             led_blue_power |-> BytesToInt(f.profiles[p].periods[i].led_blue_power)]]]]

\* a faulty variant of LoadedCurrentProfile: the range check is left out
LoadedCurrentProfileUnchecked(f) == BytesToInt(f.current_profile)

\* memcpy(&current_profile, address + 4, ...) and the range check after it
LoadedCurrentProfile(f) ==
    LET cp == BytesToInt(f.current_profile)
    IN  IF cp < 0 \/ cp >= MAX_PROFILES THEN 0 ELSE cp

----------------------------------------------------------------------------
(* What a handler did, kept in `last`:                                     *)
(*   calc    "none", or the result of its app_calculate_state call         *)
(*           ("changed" for true, "same" for false)                        *)
(*   branch  the return taken in app_calculate_state                       *)
(*   redraws number of app_redraw calls                                    *)
(*   evals   consecutive engine evaluations at the same clock value with   *)
(*           nothing else done in between, counted up to 2                 *)
(*   load    "none", or the outcome of its app_reload_profiles call        *)

Did(calc, branch, redraws, evals, load) ==
    [calc |-> calc, branch |-> branch, redraws |-> redraws, evals |-> evals,
     load |-> load]

Nothing == Did("none", "none", 0, 0, "none")

CalcName(r) == IF r.ret THEN "changed" ELSE "same"

\* the active profile and its total
ActiveProfile == profiles[current_profile]
LightTotal == profile_total_minutes(ActiveProfile)

\* app_calculate_state() on the globals
Calculated ==
    app_calculate_state(current_app_state, ActiveProfile, now, app_start_time,
                        app_start_time_without_shift)

----------------------------------------------------------------------------
(* The handlers, as functions of the globals.  A handler takes the record  *)
(* g of the globals (with the clock g.now at which it runs) and yields the *)
(* globals it leaves; the fields calc, branch, redraws and load of g log   *)
(* what it did.                                                            *)

\* top_menu_action_t
TOP_MENU_FIRST == 0
TOP_MENU_SHIFT == TOP_MENU_FIRST
TOP_MENU_SAVE == TOP_MENU_FIRST + 1
TOP_MENU_RELOAD == TOP_MENU_FIRST + 2
TOP_MENU_FLASH == TOP_MENU_FIRST + 3
TOP_MENU_LAST == TOP_MENU_FLASH

\* edit_mode_t
EDIT_FIRST == 0
EDIT_BACK == EDIT_FIRST
EDIT_DURATION == EDIT_FIRST + 1
EDIT_WR_LEVEL == EDIT_FIRST + 2
EDIT_BL_LEVEL == EDIT_FIRST + 3
EDIT_LAST == EDIT_BL_LEVEL

\* if(now - last_encoder_time > 10000 * 6000), in seconds
IdleTimeoutSeconds == (10000 * 6000) \div 1000000

\* sleep_ms(2000) while "SAVED...", "NO DATA" or "DATA LOADED" is shown
MessageSeconds == 2000 \div 1000

Globals ==
    [profiles |-> profiles,
     current_profile |-> current_profile,
     now |-> now,
     app_start_time |-> app_start_time,
     app_start_time_without_shift |-> app_start_time_without_shift,
     last_encoder_time |-> last_encoder_time,
     current_app_state |-> current_app_state,
     current_app_mode |-> current_app_mode,
     menu_profile_index |-> menu_profile_index,
     current_edit_period_index |-> current_edit_period_index,
     current_edit_value |-> current_edit_value,
     current_top_menu_action |-> current_top_menu_action,
     time_shift_hours |-> time_shift_hours,
     flash |-> flash,
     pins |-> pins,
     phase |-> phase,
     noshift_pump |-> noshift_pump,
     saved |-> saved,
     calc |-> "none", branch |-> "none", redraws |-> 0, load |-> "none"]

\* app_redraw: one more redraw of the screen of the current mode
app_redraw(g) == [g EXCEPT !.redraws = @ + 1]

\* app_apply_state: the pump pin and the two PWM levels, in percent
app_apply_state(g) ==
    [g EXCEPT !.pins = [pump |-> g.current_app_state.pump,
                        white_red |-> g.current_app_state.white_red,
                        blue |-> g.current_app_state.blue]]

\* app_calculate_state() on the globals g; g.calc holds its result.
\* noshift_pump follows the pump fields of the run in which no time shift
\* is ever added to app_start_time (so that it stays the boot time).
Calculate(g) ==
    LET profile == g.profiles[g.current_profile]
        r == app_calculate_state(g.current_app_state, profile, g.now,
                 g.app_start_time, g.app_start_time_without_shift)
        n == app_calculate_state(
                 [g.current_app_state EXCEPT
                     !.pump = g.noshift_pump.pump,
                     !.pump_minutes_left = g.noshift_pump.pump_minutes_left],
                 profile, g.now,
                 g.app_start_time_without_shift, g.app_start_time_without_shift)
    IN  [g EXCEPT !.current_app_state = r.state,
                  !.calc = CalcName(r),
                  !.branch = r.branch,
                  !.noshift_pump = [pump |-> n.state.pump,
                                    pump_minutes_left |-> n.state.pump_minutes_left]]

\* if(app_calculate_state()) { app_apply_state(); app_redraw(); }
CalculateAndShow(g) ==
    LET c == Calculate(g)
    IN  IF c.calc = "changed" THEN app_redraw(app_apply_state(c)) ELSE c

\* a faulty variant of app_save_profiles: the browsed index is stored in
\* place of the active one
app_save_profiles_browsed_index(g) ==
    app_redraw(
        [g EXCEPT !.flash = SaveImage(g.menu_profile_index, g.profiles),
                  !.saved = [status |-> "complete",
                             current_profile |-> g.menu_profile_index,
                             profiles |-> g.profiles],
                  !.now = @ + MessageSeconds,
                  !.menu_profile_index = g.current_profile,
                  !.current_app_mode = "MODE_SHOW_STATE"])

app_save_profiles(g) ==
    app_redraw(
        [g EXCEPT !.flash = SaveImage(g.current_profile, g.profiles),
                  !.saved = [status |-> "complete",
                             current_profile |-> g.current_profile,
                             profiles |-> g.profiles],
                  !.now = @ + MessageSeconds,
                  !.menu_profile_index = g.current_profile,
                  !.current_app_mode = "MODE_SHOW_STATE"])

app_reload_profiles(g, with_ui) ==
    LET shown(h) == IF with_ui
                    THEN app_redraw([h EXCEPT !.now = @ + MessageSeconds])
                    ELSE h
    IN  IF ~MagicValid(g.flash)
        THEN shown([g EXCEPT !.load = "no_data"])
        ELSE shown([g EXCEPT !.load = "loaded",
                             !.current_profile = LoadedCurrentProfile(g.flash),
                             !.profiles = LoadedProfiles(g.flash),
                             !.menu_profile_index = LoadedCurrentProfile(g.flash),
                             !.current_app_mode = "MODE_SHOW_STATE"])

\* reset_usb_boot(0, 0); while(1);
app_reboot_to_bootloader(g) == [g EXCEPT !.phase = "bootloader"]

\* a faulty variant of IdleTimeout: the profiles in memory are dropped for
\* the factory defaults when the timeout fires
IdleTimeoutDiscardsEdits(g) ==
    IF /\ g.now - g.last_encoder_time > IdleTimeoutSeconds
       /\ g.current_app_mode # "MODE_SHOW_STATE"
    THEN app_redraw([g EXCEPT !.current_app_mode = "MODE_SHOW_STATE",
                              !.menu_profile_index = g.current_profile,
                              !.profiles = DefaultProfiles])
    ELSE g

\* a faulty variant of IdleTimeout: the profiles are saved to flash when the
\* timeout fires
IdleTimeoutSaves(g) ==
    IF /\ g.now - g.last_encoder_time > IdleTimeoutSeconds
       /\ g.current_app_mode # "MODE_SHOW_STATE"
    THEN app_redraw([g EXCEPT !.current_app_mode = "MODE_SHOW_STATE",
                              !.menu_profile_index = g.current_profile,
                              !.flash = SaveImage(g.current_profile, g.profiles)])
    ELSE g

\* the first if of app_tick: the idle timeout
IdleTimeout(g) ==
    IF /\ g.now - g.last_encoder_time > IdleTimeoutSeconds
       /\ g.current_app_mode # "MODE_SHOW_STATE"
    THEN app_redraw([g EXCEPT !.current_app_mode = "MODE_SHOW_STATE",
                              !.menu_profile_index = g.current_profile])
    ELSE g

app_tick(g) ==
    LET idle == IdleTimeout(g)
    IN  IF idle.current_app_mode = "MODE_SHOW_STATE"
        THEN CalculateAndShow(idle)
        ELSE idle

\* app_init: the globals it sets, the load from flash and the first tick
app_init(g) ==
    app_tick(
        app_reload_profiles(
            [g EXCEPT !.current_profile = 0,
                      !.app_start_time = g.now,
                      !.app_start_time_without_shift = g.now,
                      !.pins = [pump |-> FALSE, white_red |-> 0, blue |-> 0],
                      !.phase = "run"],
            FALSE))

\* a faulty variant of app_encoder_show_profile: an index above the last
\* profile stays on the last profile instead of wrapping to 0
app_encoder_show_profile_clamp(g, delta) ==
    LET new_profile == g.menu_profile_index + delta
        wrapped == IF new_profile >= MAX_PROFILES THEN MAX_PROFILES - 1
                   ELSE new_profile
    IN  IF new_profile < 0
        THEN app_redraw([g EXCEPT !.current_app_mode = "MODE_TOP_MENU",
                                  !.current_top_menu_action = TOP_MENU_FIRST])
        ELSE app_redraw(
                 [g EXCEPT !.menu_profile_index = wrapped,
                           !.current_app_mode =
                               IF wrapped # g.current_profile
                               THEN "MODE_SHOW_PROFILE" ELSE "MODE_SHOW_STATE"])

app_encoder_show_profile(g, delta) ==
    LET new_profile == g.menu_profile_index + delta
        wrapped == IF new_profile >= MAX_PROFILES THEN 0 ELSE new_profile
    IN  IF new_profile < 0
        THEN app_redraw([g EXCEPT !.current_app_mode = "MODE_TOP_MENU",
                                  !.current_top_menu_action = TOP_MENU_FIRST])
        ELSE app_redraw(
                 [g EXCEPT !.menu_profile_index = wrapped,
                           !.current_app_mode =
                               IF wrapped # g.current_profile
                               THEN "MODE_SHOW_PROFILE" ELSE "MODE_SHOW_STATE"])

\* a faulty variant of app_encoder_edit_profile: no wrap below the BACK row
app_encoder_edit_profile_no_low_wrap(g, delta) ==
    LET sum == g.current_edit_period_index + delta
        new_index == IF sum >= MAX_PERIODS THEN -1 ELSE sum
    IN  IF new_index # g.current_edit_period_index
        THEN app_redraw([g EXCEPT !.current_edit_period_index = new_index])
        ELSE g

app_encoder_edit_profile(g, delta) ==
    LET sum == g.current_edit_period_index + delta
        new_index == IF sum < -1 THEN MAX_PERIODS - 1
                     ELSE IF sum >= MAX_PERIODS THEN -1 ELSE sum
    IN  IF new_index # g.current_edit_period_index
        THEN app_redraw([g EXCEPT !.current_edit_period_index = new_index])
        ELSE g

\* a faulty variant of app_encoder_edit_duration: no upper limit of 24 hours
app_encoder_edit_duration_no_cap(g, delta) ==
    LET period == g.profiles[g.current_profile].periods[g.current_edit_period_index]
        sum == period.duration + delta * 60
        new_duration == IF sum < 0 THEN 0 ELSE sum
    IN  IF new_duration # period.duration
        THEN app_redraw(
                 [g EXCEPT !.profiles[g.current_profile]
                               .periods[g.current_edit_period_index]
                               .duration = new_duration])
        ELSE g

app_encoder_edit_duration(g, delta) ==
    LET period == g.profiles[g.current_profile].periods[g.current_edit_period_index]
        sum == period.duration + delta * 60
        new_duration == IF sum < 0 THEN 0 ELSE IF sum > 24 * 60 THEN 24 * 60 ELSE sum
    IN  IF new_duration # period.duration
        THEN app_redraw(
                 [g EXCEPT !.profiles[g.current_profile]
                               .periods[g.current_edit_period_index]
                               .duration = new_duration])
        ELSE g

\* a faulty variant of app_encoder_edit_period: the field is clamped at both
\* ends instead of wrapping
app_encoder_edit_period_clamp(g, delta) ==
    LET sum == g.current_edit_value + delta
        new_value == IF sum < EDIT_FIRST THEN EDIT_FIRST
                     ELSE IF sum > EDIT_LAST THEN EDIT_LAST ELSE sum
    IN  IF new_value # g.current_edit_value
        THEN app_redraw([g EXCEPT !.current_edit_value = new_value])
        ELSE g

app_encoder_edit_period(g, delta) ==
    LET sum == g.current_edit_value + delta
        new_value == IF sum < EDIT_FIRST THEN EDIT_LAST
                     ELSE IF sum > EDIT_LAST THEN EDIT_FIRST ELSE sum
    IN  IF new_value # g.current_edit_value
        THEN app_redraw([g EXCEPT !.current_edit_value = new_value])
        ELSE g

\* a faulty variant of app_encoder_edit_white_red_level: the new level is
\* written to current_app_state but not applied to the pins
app_encoder_edit_white_red_level_no_apply(g, delta) ==
    LET period == g.profiles[g.current_profile].periods[g.current_edit_period_index]
        sum == period.led_white_red_power + delta * 5
        new_level == IF sum < 0 THEN 0 ELSE IF sum > 100 THEN 100 ELSE sum
        edited == IF new_level # period.led_white_red_power
                  THEN app_redraw(
                           [g EXCEPT !.profiles[g.current_profile]
                                         .periods[g.current_edit_period_index]
                                         .led_white_red_power = new_level])
                  ELSE g
    IN  [edited EXCEPT !.current_app_state.white_red = new_level]

app_encoder_edit_white_red_level(g, delta) ==
    LET period == g.profiles[g.current_profile].periods[g.current_edit_period_index]
        sum == period.led_white_red_power + delta * 5
        new_level == IF sum < 0 THEN 0 ELSE IF sum > 100 THEN 100 ELSE sum
        edited == IF new_level # period.led_white_red_power
                  THEN app_redraw(
                           [g EXCEPT !.profiles[g.current_profile]
                                         .periods[g.current_edit_period_index]
                                         .led_white_red_power = new_level])
                  ELSE g
    IN  app_apply_state([edited EXCEPT !.current_app_state.white_red = new_level])

\* a faulty variant of app_encoder_edit_blue_level: the new level is stored
\* in the white-red power of the period
app_encoder_edit_blue_level_other_field(g, delta) ==
    LET period == g.profiles[g.current_profile].periods[g.current_edit_period_index]
        sum == period.led_blue_power + delta * 5
        new_level == IF sum < 0 THEN 0 ELSE IF sum > 100 THEN 100 ELSE sum
        edited == IF new_level # period.led_blue_power
                  THEN app_redraw(
                           [g EXCEPT !.profiles[g.current_profile]
                                         .periods[g.current_edit_period_index]
                                         .led_white_red_power = new_level])
                  ELSE g
    IN  app_apply_state([edited EXCEPT !.current_app_state.blue = new_level])

app_encoder_edit_blue_level(g, delta) ==
    LET period == g.profiles[g.current_profile].periods[g.current_edit_period_index]
        sum == period.led_blue_power + delta * 5
        new_level == IF sum < 0 THEN 0 ELSE IF sum > 100 THEN 100 ELSE sum
        edited == IF new_level # period.led_blue_power
                  THEN app_redraw(
                           [g EXCEPT !.profiles[g.current_profile]
                                         .periods[g.current_edit_period_index]
                                         .led_blue_power = new_level])
                  ELSE g
    IN  app_apply_state([edited EXCEPT !.current_app_state.blue = new_level])

\* a faulty variant of app_encoder_top_menu: an action above FLASH stays on
\* FLASH instead of wrapping to SHIFT
app_encoder_top_menu_clamp(g, delta) ==
    LET new_action == g.current_top_menu_action + delta
    IN  IF new_action < TOP_MENU_FIRST
        THEN app_redraw(
                 [g EXCEPT !.menu_profile_index = 0,
                           !.current_app_mode =
                               IF 0 # g.current_profile
                               THEN "MODE_SHOW_PROFILE" ELSE "MODE_SHOW_STATE"])
        ELSE IF new_action > TOP_MENU_LAST
        THEN app_redraw([g EXCEPT !.current_top_menu_action = TOP_MENU_LAST])
        ELSE app_redraw([g EXCEPT !.current_top_menu_action = new_action])

\* a faulty variant of app_encoder_top_menu: on the way back to browsing the
\* browsed index is left as it is
app_encoder_top_menu_keeps_index(g, delta) ==
    LET new_action == g.current_top_menu_action + delta
    IN  IF new_action < TOP_MENU_FIRST
        THEN app_redraw(
                 [g EXCEPT !.current_app_mode =
                               IF 0 # g.current_profile
                               THEN "MODE_SHOW_PROFILE" ELSE "MODE_SHOW_STATE"])
        ELSE IF new_action > TOP_MENU_LAST
        THEN app_redraw([g EXCEPT !.current_top_menu_action = TOP_MENU_FIRST])
        ELSE app_redraw([g EXCEPT !.current_top_menu_action = new_action])

app_encoder_top_menu(g, delta) ==
    LET new_action == g.current_top_menu_action + delta
    IN  IF new_action < TOP_MENU_FIRST
        THEN app_redraw(
                 [g EXCEPT !.menu_profile_index = 0,
                           !.current_app_mode =
                               IF 0 # g.current_profile
                               THEN "MODE_SHOW_PROFILE" ELSE "MODE_SHOW_STATE"])
        ELSE IF new_action > TOP_MENU_LAST
        THEN app_redraw([g EXCEPT !.current_top_menu_action = TOP_MENU_FIRST])
        ELSE app_redraw([g EXCEPT !.current_top_menu_action = new_action])

app_encoder_time_shift(g, delta) ==
    LET sum == g.time_shift_hours + delta
        new_shift == IF sum < -23 THEN -23 ELSE IF sum > 23 THEN 23 ELSE sum
    IN  IF new_shift # g.time_shift_hours
        THEN app_redraw([g EXCEPT !.time_shift_hours = new_shift])
        ELSE g

app_on_encoder_change(g0, delta) ==
    IF delta = 0 THEN g0
    ELSE LET g == [g0 EXCEPT !.last_encoder_time = g0.now]
             mode == g0.current_app_mode
         IN  CASE mode \in {"MODE_SHOW_PROFILE", "MODE_SHOW_STATE"} ->
                      app_encoder_show_profile(g, delta)
               [] mode = "MODE_EDIT_PROFILE" -> app_encoder_edit_profile(g, delta)
               [] mode = "MODE_EDIT_PERIOD" -> app_encoder_edit_period(g, delta)
               [] mode = "MODE_EDIT_DURATION" -> app_encoder_edit_duration(g, delta)
               [] mode = "MODE_EDIT_WR_LEVEL" -> app_encoder_edit_white_red_level(g, delta)
               [] mode = "MODE_EDIT_BL_LEVEL" -> app_encoder_edit_blue_level(g, delta)
               [] mode = "MODE_TOP_MENU" -> app_encoder_top_menu(g, delta)
               [] mode = "MODE_TIME_SHIFT" -> app_encoder_time_shift(g, delta)

\* a faulty variant of ClickShowProfile: the state of the new profile is
\* calculated but not applied to the pins
ClickShowProfileNoApply(g) ==
    IF g.menu_profile_index # g.current_profile
    THEN Calculate([g EXCEPT !.current_profile = g.menu_profile_index,
                             !.current_app_mode = "MODE_SHOW_STATE"])
    ELSE g

\* case MODE_SHOW_PROFILE of app_on_click
ClickShowProfile(g) ==
    IF g.menu_profile_index # g.current_profile
    THEN app_apply_state(
             Calculate([g EXCEPT !.current_profile = g.menu_profile_index,
                                 !.current_app_mode = "MODE_SHOW_STATE"]))
    ELSE g

\* a faulty variant of ClickEditProfile: the preview takes the white-red
\* power of the period for both channels
ClickEditProfileOneChannel(g) ==
    IF g.current_edit_period_index = -1
    THEN [g EXCEPT !.current_app_mode = "MODE_SHOW_STATE"]
    ELSE LET period == g.profiles[g.current_profile].periods[g.current_edit_period_index]
         IN  app_apply_state(
                 [g EXCEPT !.current_app_mode = "MODE_EDIT_PERIOD",
                           !.current_edit_value = EDIT_BACK,
                           !.current_app_state.white_red = period.led_white_red_power,
                           !.current_app_state.blue = period.led_white_red_power])

\* a faulty variant of ClickEditProfile: the BACK row is not told from the
\* period rows and opens the period editor as they do
ClickEditProfileOpensBackRow(g) ==
    IF g.current_edit_period_index \in PeriodIds
    THEN LET period == g.profiles[g.current_profile].periods[g.current_edit_period_index]
         IN  app_apply_state(
                 [g EXCEPT !.current_app_mode = "MODE_EDIT_PERIOD",
                           !.current_edit_value = EDIT_BACK,
                           !.current_app_state.white_red = period.led_white_red_power,
                           !.current_app_state.blue = period.led_blue_power])
    ELSE [g EXCEPT !.current_app_mode = "MODE_EDIT_PERIOD",
                   !.current_edit_value = EDIT_BACK]

\* case MODE_EDIT_PROFILE of app_on_click
ClickEditProfile(g) ==
    IF g.current_edit_period_index = -1
    THEN [g EXCEPT !.current_app_mode = "MODE_SHOW_STATE"]
    ELSE LET period == g.profiles[g.current_profile].periods[g.current_edit_period_index]
         IN  app_apply_state(
                 [g EXCEPT !.current_app_mode = "MODE_EDIT_PERIOD",
                           !.current_edit_value = EDIT_BACK,
                           !.current_app_state.white_red = period.led_white_red_power,
                           !.current_app_state.blue = period.led_blue_power])

\* case MODE_EDIT_PERIOD of app_on_click
ClickEditPeriod(g) ==
    CASE g.current_edit_value = EDIT_BACK ->
             [g EXCEPT !.current_app_mode = "MODE_EDIT_PROFILE"]
      [] g.current_edit_value = EDIT_WR_LEVEL ->
             [g EXCEPT !.current_app_mode = "MODE_EDIT_WR_LEVEL"]
      [] g.current_edit_value = EDIT_BL_LEVEL ->
             [g EXCEPT !.current_app_mode = "MODE_EDIT_BL_LEVEL"]
      [] g.current_edit_value = EDIT_DURATION ->
             [g EXCEPT !.current_app_mode = "MODE_EDIT_DURATION"]
      [] OTHER -> g

\* a faulty variant of ClickTopMenu: SHIFT opens the time shift screen with
\* the hours of the previous visit
ClickTopMenuKeepsShift(g) ==
    CASE g.current_top_menu_action = TOP_MENU_SAVE -> app_save_profiles(g)
      [] g.current_top_menu_action = TOP_MENU_RELOAD -> app_reload_profiles(g, TRUE)
      [] g.current_top_menu_action = TOP_MENU_FLASH -> app_reboot_to_bootloader(g)
      [] g.current_top_menu_action = TOP_MENU_SHIFT ->
             [g EXCEPT !.current_app_mode = "MODE_TIME_SHIFT"]
      [] OTHER -> g

\* case MODE_TOP_MENU of app_on_click
ClickTopMenu(g) ==
    CASE g.current_top_menu_action = TOP_MENU_SAVE -> app_save_profiles(g)
      [] g.current_top_menu_action = TOP_MENU_RELOAD -> app_reload_profiles(g, TRUE)
      [] g.current_top_menu_action = TOP_MENU_FLASH -> app_reboot_to_bootloader(g)
      [] g.current_top_menu_action = TOP_MENU_SHIFT ->
             [g EXCEPT !.time_shift_hours = 0, !.current_app_mode = "MODE_TIME_SHIFT"]
      [] OTHER -> g

\* app_start_time += (uint64_t) (time_shift_hours) * 60L * 60L * 1000L * 1000L
ShiftedStart(start, hours) == start + hours * 60 * 60

\* case MODE_TIME_SHIFT of app_on_click
ClickTimeShift(g) ==
    IF g.time_shift_hours # 0
    THEN Calculate([g EXCEPT !.current_app_mode = "MODE_TOP_MENU",
                             !.app_start_time = ShiftedStart(@, g.time_shift_hours)])
    ELSE [g EXCEPT !.current_app_mode = "MODE_TOP_MENU"]

app_on_click(g0) ==
    LET g == [g0 EXCEPT !.last_encoder_time = g0.now]
        mode == g0.current_app_mode
        done ==
            CASE mode = "MODE_SHOW_PROFILE" -> ClickShowProfile(g)
              [] mode = "MODE_SHOW_STATE" ->
                     [g EXCEPT !.current_edit_period_index = -1,
                               !.current_app_mode = "MODE_EDIT_PROFILE"]
              [] mode = "MODE_EDIT_PROFILE" -> ClickEditProfile(g)
              [] mode = "MODE_EDIT_PERIOD" -> ClickEditPeriod(g)
              [] mode \in {"MODE_EDIT_DURATION", "MODE_EDIT_WR_LEVEL",
                           "MODE_EDIT_BL_LEVEL"} ->
                     [g EXCEPT !.current_app_mode = "MODE_EDIT_PERIOD"]
              [] mode = "MODE_TOP_MENU" -> ClickTopMenu(g)
              [] mode = "MODE_TIME_SHIFT" -> ClickTimeShift(g)
    IN  IF done.phase = "bootloader" THEN done ELSE app_redraw(done)

----------------------------------------------------------------------------
(* Spec: the controller from power-on, driven by the main loop             *)

\* encoder deltas handed to app_on_encoder_change
Deltas == {-24, -1, 0, 1, 24}

\* seconds between two calls of app_tick that the model tells apart: the
\* next pass of the loop, one minute and five minutes later
TimeSteps == {0, 60, 300}

\* the variables take the values the handler left in g; evals is the new
\* count of consecutive evaluations
CommitGlobals(g, evals) ==
    /\ profiles' = g.profiles
    /\ current_profile' = g.current_profile
    /\ now' = g.now
    /\ app_start_time' = g.app_start_time
    /\ app_start_time_without_shift' = g.app_start_time_without_shift
    /\ last_encoder_time' = g.last_encoder_time
    /\ current_app_state' = g.current_app_state
    /\ current_app_mode' = g.current_app_mode
    /\ menu_profile_index' = g.menu_profile_index
    /\ current_edit_period_index' = g.current_edit_period_index
    /\ current_edit_value' = g.current_edit_value
    /\ current_top_menu_action' = g.current_top_menu_action
    /\ time_shift_hours' = g.time_shift_hours
    /\ flash' = g.flash
    /\ pins' = g.pins
    /\ phase' = g.phase
    /\ noshift_pump' = g.noshift_pump
    /\ saved' = g.saved
    /\ last' = Did(g.calc, g.branch, g.redraws, evals, g.load)

\* a handler called while the button is left alone
Commit(g, evals) ==
    /\ CommitGlobals(g, evals)
    /\ button' = button

\* the static initializers of app.c, before main runs
Init ==
    /\ profiles = DefaultProfiles
    /\ current_profile = 0
    /\ now = 0
    /\ app_start_time = 0
    /\ app_start_time_without_shift = 0
    /\ last_encoder_time = 0
    /\ current_app_state = InitialAppState
    /\ current_app_mode = "MODE_SHOW_STATE"
    /\ menu_profile_index = 0
    /\ current_edit_period_index = 0
    /\ current_edit_value = EDIT_BACK
    /\ current_top_menu_action = TOP_MENU_SAVE
    /\ time_shift_hours = 0
    /\ flash = ErasedFlash
    /\ pins = [pump |-> FALSE, white_red |-> 0, blue |-> 0]
    /\ phase = "init"
    /\ last = Nothing
    /\ noshift_pump = [pump |-> FALSE, pump_minutes_left |-> 0]
    /\ saved = [status |-> "none"]
    /\ inputs = 0
    /\ button = ButtonAtReset

\* main: app_init()
Boot ==
    /\ phase = "init"
    /\ LET g == app_init(Globals)
       IN  Commit(g, IF g.calc = "none" THEN 0 ELSE 1)
    /\ UNCHANGED inputs

\* main loop: app_tick(), dt seconds after the previous call
Tick ==
    /\ phase = "run"
    /\ \E dt \in TimeSteps :
          /\ now + dt <= MaxMinutes * 60
          /\ LET g == app_tick([Globals EXCEPT !.now = now + dt])
             IN  Commit(g, IF g.calc = "none" THEN 0
                           ELSE IF dt = 0 /\ last.evals < 2 THEN last.evals + 1
                           ELSE IF dt = 0 THEN 2 ELSE 1)
    /\ UNCHANGED inputs

\* main loop: app_on_encoder_change(-delta) for one value of the argument
RotateBy(delta) ==
    /\ phase = "run"
    /\ inputs < MaxInputs
    /\ LET g == app_on_encoder_change(Globals, delta)
       IN  Commit(g, IF g.calc = "none" THEN 0 ELSE 1)
    /\ inputs' = IF delta = 0 THEN inputs ELSE inputs + 1

\* main loop: the encoder poll, with every count it can deliver
Rotate == \E delta \in Deltas : RotateBy(delta)

\* main loop: app_on_click()
Click ==
    /\ phase = "run"
    /\ inputs < MaxInputs
    /\ LET g == app_on_click(Globals)
       IN  Commit(g, IF g.calc = "none" THEN 0 ELSE 1)
    /\ inputs' = inputs + 1

Next == Boot \/ Tick \/ Rotate \/ Click

Spec == Init /\ [][Next]_vars

----------------------------------------------------------------------------
(* SpecEngine: app_calculate_state applied to drawn inputs                 *)

Periods6(p0, p1, p2, p3, p4, p5) ==
    [i \in PeriodIds |->
        CASE i = 0 -> p0 [] i = 1 -> p1 [] i = 2 -> p2
          [] i = 3 -> p3 [] i = 4 -> p4 [] i = 5 -> p5]

\* period tables the engine is applied to
EnginePeriods ==
    { DefaultProfiles[0].periods,
      DefaultProfiles[3].periods,
      Periods2(Period(480, 100, 50), Period(960, 0, 0)),
      Periods6(Disabled, Period(60, 5, 10), Disabled, Period(1440, 100, 0),
               Disabled, Period(120, 35, 70)),
      Periods6(Disabled, Disabled, Disabled, Disabled, Disabled, Period(60, 100, 100)),
      Periods6(Period(1440, 10, 0), Period(1440, 20, 5), Period(1440, 30, 10),
               Period(1440, 40, 15), Period(1440, 50, 20), Period(1440, 60, 25)),
      \* enabled periods with all powers off, and a disabled one with powers set
      Periods6(Period(60, 0, 0), Period(0, 100, 100), Period(60, 0, 0),
               Disabled, Disabled, Disabled) }

\* clock values in seconds since boot
EngineNows ==
    { 0, 59, 4 * 60 + 59, 5 * 60, 35 * 60, 500 * 60, 840 * 60 - 1, 840 * 60,
      1440 * 60 + 30, 8640 * 60 + 61 }

\* shiftable baselines: unshifted, shifted back and shifted forward
EngineStarts == { 0, -23 * 3600, -3600, 3600, 23 * 3600 }

\* previous output states
EngineStates ==
    { InitialAppState } \cup
    [ period_index : {0, 1}, white_red : {0, 100}, blue : {0, 50},
      pump : BOOLEAN, pump_minutes_left : {0, 5, 30},
      period_minutes_left : {0, 940} ]

InitEngine ==
    /\ current_profile \in {0, 3}
    /\ \E periods \in EnginePeriods :
          profiles = [DefaultProfiles EXCEPT ![current_profile].periods = periods]
    /\ now \in EngineNows
    /\ app_start_time \in EngineStarts
    /\ app_start_time_without_shift = 0
    /\ last_encoder_time = 0
    /\ current_app_state \in EngineStates
    /\ current_app_mode = "MODE_SHOW_STATE"
    /\ menu_profile_index = current_profile
    /\ current_edit_period_index = 0
    /\ current_edit_value = 0
    /\ current_top_menu_action = 1
    /\ time_shift_hours = 0
    /\ flash = ErasedFlash
    /\ pins = [pump |-> FALSE, white_red |-> 0, blue |-> 0]
    /\ phase = "run"
    /\ last = Nothing
    /\ noshift_pump = [pump |-> current_app_state.pump,
                       pump_minutes_left |-> current_app_state.pump_minutes_left]
    /\ saved = [status |-> "none"]
    /\ inputs = 0
    /\ button = ButtonAtReset

\* one call of app_calculate_state()
EngineEvaluate ==
    /\ current_app_state' = Calculated.state
    /\ last' = Did(CalcName(Calculated), Calculated.branch, 0,
                   IF last.evals < 2 THEN last.evals + 1 ELSE 2, "none")
    /\ UNCHANGED <<profiles, current_profile, now, app_start_time,
                   app_start_time_without_shift, last_encoder_time,
                   current_app_mode, menu_profile_index,
                   current_edit_period_index, current_edit_value,
                   current_top_menu_action, time_shift_hours, flash, pins,
                   phase, noshift_pump, saved, inputs, button>>

NextEngine == EngineEvaluate

SpecEngine == InitEngine /\ [][NextEngine]_vars

----------------------------------------------------------------------------
(* Properties of the schedule engine                                       *)

\* minutes since boot modulo the pump cycle
PumpCyclePosition ==
    ((now - app_start_time_without_shift) \div 60) % PUMP_TOTAL_MINUTES

\* position of the shiftable clock in the light cycle (LightTotal > 0)
LightCyclePosition ==
    MinutesMod(ElapsedMinutes(now, app_start_time), LightTotal)

RECURSIVE DurationsBefore(_, _)
DurationsBefore(profile, i) ==
    IF i = 0 THEN 0
    ELSE DurationsBefore(profile, i - 1) + profile.periods[i - 1].duration

\* period i is enabled and its cumulative window contains position pos
InWindow(profile, i, pos) ==
    /\ profile.periods[i].duration > 0
    /\ DurationsBefore(profile, i) <= pos
    /\ pos < DurationsBefore(profile, i) + profile.periods[i].duration

\* C1: after every engine evaluation, whatever the active profile, the pump
\* is on exactly when (minutes since boot mod 35) < 5, with
\* pump_minutes_left = 5 - position when on and 35 - position when off.
C1_PumpFollowsCadence ==
    last.calc # "none" =>
        /\ current_app_state.pump = (PumpCyclePosition < PUMP_RUN_MINUTES)
        /\ current_app_state.pump_minutes_left =
              IF PumpCyclePosition < PUMP_RUN_MINUTES
              THEN PUMP_RUN_MINUTES - PumpCyclePosition
              ELSE PUMP_TOTAL_MINUTES - PumpCyclePosition

\* C3: an evaluation with an active profile whose durations sum to 0 leaves
\* white_red = 0 and blue = 0, and reports a change only if one of the two
\* powers was non-zero before.  (Every step of SpecEngine is an evaluation.)
C3_AllOffWhenNoActivePeriod ==
    [][LightTotal = 0 =>
          /\ current_app_state'.white_red = 0
          /\ current_app_state'.blue = 0
          /\ (last'.calc = "changed" =>
                 (current_app_state.white_red # 0 \/ current_app_state.blue # 0))]_vars

C3_Witness ==
    /\ LightTotal = 0
    /\ last.calc = "changed"
    /\ current_app_state.white_red = 0
    /\ current_app_state.blue = 0

\* C4: with durations in 0..1440 and LightTotal > 0 every evaluation ends in
\* a period (never in the "no active period" fallback) and period_index is
\* then the index of a period whose duration is > 0.
C4_ActivePeriodSelected ==
    (last.calc # "none" /\ LightTotal > 0) =>
        /\ last.branch = "in_period"
        /\ current_app_state.period_index \in PeriodIds
        /\ ActiveProfile.periods[current_app_state.period_index].duration > 0

C4_Witness ==
    /\ last.branch = "in_period"
    /\ ActiveProfile.periods[0].duration = 0
    /\ ActiveProfile.periods[4].duration = 0
    /\ current_app_state.period_index = 5

\* C5: with LightTotal > 0 the evaluation outputs the first enabled period
\* whose cumulative window contains the position of the shiftable clock in
\* the cycle: its index, its stored powers, and the minutes to its end.
C5_FirstWindowContainingPosition ==
    (last.calc # "none" /\ LightTotal > 0) =>
        \E i \in PeriodIds :
            /\ InWindow(ActiveProfile, i, LightCyclePosition)
            /\ \A j \in 0 .. (i - 1) : ~InWindow(ActiveProfile, j, LightCyclePosition)
            /\ current_app_state.period_index = i
            /\ current_app_state.white_red = ActiveProfile.periods[i].led_white_red_power
            /\ current_app_state.blue = ActiveProfile.periods[i].led_blue_power
            /\ current_app_state.period_minutes_left =
                  DurationsBefore(ActiveProfile, i) + ActiveProfile.periods[i].duration
                      - LightCyclePosition

\* periods [480@(100,50), 960@(0,0)] at position 500
C5_Witness ==
    /\ last.calc # "none"
    /\ ActiveProfile.periods = Periods2(Period(480, 100, 50), Period(960, 0, 0))
    /\ now = 500 * 60 /\ app_start_time = 0
    /\ current_app_state.period_index = 1
    /\ current_app_state.white_red = 0
    /\ current_app_state.blue = 0
    /\ current_app_state.period_minutes_left = 940

\* C6: an evaluation that directly follows another one, with the clock, the
\* baselines and the profiles unchanged, reports no change and leaves the
\* output state as it is.  (Every step of SpecEngine is an evaluation, and
\* nothing but the output state changes.)
C6_SecondEvaluationChangesNothing ==
    [][last.evals >= 1 =>
          (current_app_state' = current_app_state /\ last'.calc = "same")]_vars

C6_Witness ==
    /\ last.evals = 2
    /\ last.calc = "same"
    /\ LightTotal > 0
    /\ current_app_state.pump

\* C7: the output state after an evaluation does not depend on the output
\* state before it: it is the one the evaluation yields from the power-on
\* output state, for the same clock, baselines and profile.
C7_OutputIndependentOfPrevious ==
    last.calc # "none" =>
        current_app_state =
            app_calculate_state(InitialAppState, ActiveProfile, now, app_start_time,
                                app_start_time_without_shift).state

----------------------------------------------------------------------------
(* Properties of the time shift                                            *)

\* the click that leaves MODE_TIME_SHIFT and applies time_shift_hours
IsTimeShiftClick ==
    /\ phase = "run"
    /\ current_app_mode = "MODE_TIME_SHIFT"
    /\ current_app_mode' = "MODE_TOP_MENU"

\* C2: a time shift never changes the pump baseline.  In every state of a
\* run, the pump flag and pump_minutes_left equal those of the same run in
\* which no shift is added to app_start_time (noshift_pump), and the click
\* that applies a shift moves app_start_time by time_shift_hours hours and
\* leaves app_start_time_without_shift alone.
C2_PumpUnaffectedByTimeShift ==
    /\ [](phase = "run" =>
            /\ current_app_state.pump = noshift_pump.pump
            /\ current_app_state.pump_minutes_left = noshift_pump.pump_minutes_left
            /\ app_start_time_without_shift = 0)
    /\ [][IsTimeShiftClick =>
            /\ time_shift_hours \in -23 .. 23
            /\ app_start_time' = app_start_time + time_shift_hours * 3600
            /\ app_start_time_without_shift' = app_start_time_without_shift]_vars

\* a shift of -23 hours has been applied on the default profile 0: the
\* light schedule is in period 1 (it is in period 0 for the first 14 hours
\* without a shift) and the evaluation after the shift has set the pump
\* fields for minute 1 since boot
C2_Witness ==
    /\ app_start_time = -23 * 3600
    /\ current_profile = 0
    /\ profiles = DefaultProfiles
    /\ now = 60
    /\ last.calc # "none"
    /\ current_app_state.period_index = 1
    /\ current_app_state.pump
    /\ current_app_state.pump_minutes_left = 4

----------------------------------------------------------------------------
(* SpecStore: app_save_profiles and app_reload_profiles on drawn profile   *)
(* sets and sector contents, with power cycles and power losses during a   *)
(* save.  saved tells whether the sector holds a completed save, and what  *)
(* was saved.                                                              *)

\* profile sets the UI can produce: durations in steps of 60 within
\* 0..1440, powers in steps of 5 within 0..100
StoreProfiles ==
    { DefaultProfiles,
      [DefaultProfiles EXCEPT
          ![0].periods = Periods6(Period(1440, 100, 100), Period(60, 5, 95),
                                  Period(300, 0, 0), Disabled, Disabled,
                                  Period(720, 50, 0)),
          ![4].periods = Periods6(Disabled, Disabled, Disabled, Disabled,
                                  Period(1380, 95, 5), Period(1440, 100, 100))],
      [p \in ProfileIds |->
          [DefaultProfiles[p] EXCEPT
              !.periods = [i \in PeriodIds |-> Period(1440, 100, 100)]]],
      [p \in ProfileIds |->
          [DefaultProfiles[p] EXCEPT !.periods = [i \in PeriodIds |-> Disabled]]] }

\* a sector that was never saved to: erased, all zero, four bytes that
\* differ from the magic in the last one, and bytes left by other software
\* that begin like the magic
NearMagicFlash == [ErasedFlash EXCEPT !.magic = <<165, 90, 165, 91>>]

ArbitraryFlash ==
    FlashImage(MagicBytes, 7,
               [p \in ProfileIds |->
                   [name |-> "?",
                    periods |-> [i \in PeriodIds |-> Period(-2, 300, 65536 + p)]]])

StoreFlashes == { ErasedFlash, ZeroFlash, NearMagicFlash, ArbitraryFlash }

\* number of bytes programmed when power is lost during flash_range_program:
\* none, half of the magic, the magic, the magic and current_profile, the
\* first page, and all but the last int
PowerLossPoints ==
    { 0, 2, 4, OffsetProfiles, FLASH_PAGE_SIZE, ImageSize - SizeofInt }

\* the globals after a restart: the static initializers, and the sector
PowerOn(g) ==
    [g EXCEPT !.profiles = DefaultProfiles,
              !.current_profile = 0,
              !.now = 0,
              !.app_start_time = 0,
              !.app_start_time_without_shift = 0,
              !.last_encoder_time = 0,
              !.current_app_state = InitialAppState,
              !.current_app_mode = "MODE_SHOW_STATE",
              !.menu_profile_index = 0,
              !.current_edit_period_index = 0,
              !.current_edit_value = EDIT_BACK,
              !.current_top_menu_action = TOP_MENU_SAVE,
              !.time_shift_hours = 0,
              !.pins = [pump |-> FALSE, white_red |-> 0, blue |-> 0],
              !.phase = "init"]

InitStore ==
    /\ profiles \in StoreProfiles
    /\ current_profile \in ProfileIds
    /\ flash \in StoreFlashes
    /\ now = 0
    /\ app_start_time = 0
    /\ app_start_time_without_shift = 0
    /\ last_encoder_time = 0
    /\ current_app_state = InitialAppState
    /\ current_app_mode = "MODE_TOP_MENU"
    /\ menu_profile_index = current_profile
    /\ current_edit_period_index = 0
    /\ current_edit_value = EDIT_BACK
    /\ current_top_menu_action = TOP_MENU_SAVE
    /\ time_shift_hours = 0
    /\ pins = [pump |-> FALSE, white_red |-> 0, blue |-> 0]
    /\ phase = "run"
    /\ last = Nothing
    /\ noshift_pump = [pump |-> FALSE, pump_minutes_left |-> 0]
    /\ saved = [status |-> "none"]
    /\ inputs = 0
    /\ button = ButtonAtReset

\* app_save_profiles()
StoreSave ==
    /\ phase = "run"
    /\ inputs < MaxInputs
    /\ Commit(app_save_profiles(Globals), 0)
    /\ inputs' = inputs + 1

\* app_save_profiles() cut by a power loss after the erase and n programmed
\* bytes; the controller restarts
StoreSaveInterrupted ==
    /\ phase = "run"
    /\ inputs < MaxInputs
    /\ \E n \in PowerLossPoints :
          Commit(PowerOn([Globals EXCEPT
                     !.flash = PartlyProgrammed(SaveImage(current_profile, profiles), n),
                     !.saved = [status |-> "interrupted",
                                current_profile |-> current_profile,
                                profiles |-> profiles]]), 0)
    /\ inputs' = inputs + 1

\* power is switched off and on while no save is running
StorePowerCycle ==
    /\ phase = "run"
    /\ inputs < MaxInputs
    /\ Commit(PowerOn(Globals), 0)
    /\ inputs' = inputs + 1

\* app_reload_profiles(false), the call in app_init
StoreLoadAtBoot ==
    /\ phase = "init"
    /\ Commit(app_reload_profiles([Globals EXCEPT !.phase = "run"], FALSE), 0)
    /\ UNCHANGED inputs

\* app_reload_profiles(true), the call of the RELOAD menu entry
StoreReload ==
    /\ phase = "run"
    /\ inputs < MaxInputs
    /\ Commit(app_reload_profiles(Globals, TRUE), 0)
    /\ inputs' = inputs + 1

NextStore ==
    \/ StoreSave
    \/ StoreSaveInterrupted
    \/ StorePowerCycle
    \/ StoreLoadAtBoot
    \/ StoreReload

SpecStore == InitStore /\ [][NextStore]_vars

----------------------------------------------------------------------------
(* Properties of the flash store                                           *)

\* the field ranges the UI keeps
ValidRanges(profs) ==
    \A p \in ProfileIds : \A i \in PeriodIds :
        /\ profs[p].periods[i].duration \in 0 .. 1440
        /\ profs[p].periods[i].led_white_red_power \in 0 .. 100
        /\ profs[p].periods[i].led_blue_power \in 0 .. 100

\* C8: when the sector holds a completed save of a profile set with valid
\* field ranges and an active index in 0..4, a load reports data and leaves
\* exactly the saved five profiles (names, durations, powers) and the saved
\* active index in memory.
C8_LoadRestoresSaved ==
    (/\ saved.status = "complete"
     /\ ValidRanges(saved.profiles)
     /\ saved.current_profile \in ProfileIds
     /\ last.load # "none") =>
        /\ last.load = "loaded"
        /\ profiles = saved.profiles
        /\ current_profile = saved.current_profile
        /\ menu_profile_index = saved.current_profile

\* an edited profile set with active index 4 was saved, power was cycled
\* (memory held the defaults, the clock restarted) and the load at boot has
\* brought the set back
C8_Witness ==
    /\ saved.status = "complete"
    /\ last.load = "loaded"
    /\ now = 0
    /\ current_profile = 4
    /\ profiles # DefaultProfiles
    /\ profiles[0].periods[1] = Period(60, 5, 95)
    /\ profiles[4].periods[5] = Period(1440, 100, 100)

\* C9: after a save that lost power between the start of the erase and the
\* end of the programming, the sector does not hold the magic, and a load
\* reports no data and keeps the factory defaults.
C9_InterruptedSaveLeavesNoMagic ==
    saved.status = "interrupted" =>
        /\ ~MagicValid(flash)
        /\ (last.load # "none" =>
               (last.load = "no_data" /\ profiles = DefaultProfiles))

\* C10: a load from a sector that does not hold a completed save reports
\* no data and leaves profiles, current_profile, menu_profile_index and the
\* mode as they were.
C10_LoadWithoutSaveChangesNothing ==
    [][(saved.status # "complete" /\ last'.load # "none") =>
          /\ last'.load = "no_data"
          /\ UNCHANGED <<profiles, current_profile, menu_profile_index,
                         current_app_mode>>]_vars

\* C11: a load that finds the magic and a stored index outside 0..4 leaves
\* current_profile = 0 (and menu_profile_index with it), so that
\* current_profile is within 0..4 in every state, whatever index the sector
\* holds.
C11_LoadedIndexInRange ==
    /\ current_profile \in ProfileIds
    /\ (last.load = "loaded" /\ BytesToInt(flash.current_profile) \notin ProfileIds) =>
           (current_profile = 0 /\ menu_profile_index = 0)

\* the sector held the magic and index 7 and was loaded
C11_Witness ==
    /\ last.load = "loaded"
    /\ BytesToInt(flash.current_profile) = 7
    /\ current_profile = 0

----------------------------------------------------------------------------
(* Properties of the idle timeout and of the tick                          *)

\* C12: a tick that runs more than 10 seconds after the last click or
\* non-zero rotation, in a mode other than MODE_SHOW_STATE, leaves
\* MODE_SHOW_STATE and menu_profile_index = current_profile.
C12_IdleTimeoutAfterTenSeconds ==
    [][(/\ Tick
        /\ now' - last_encoder_time > 10
        /\ current_app_mode # "MODE_SHOW_STATE") =>
          /\ current_app_mode' = "MODE_SHOW_STATE"
          /\ menu_profile_index' = current_profile']_vars

\* C13: a tick in which the idle timeout fires leaves the profiles (with
\* the edits made so far), current_profile, both baselines and the flash
\* sector as they were, and of the navigation variables changes only the
\* mode and menu_profile_index; a pending time_shift_hours is not applied.
C13_IdleTimeoutKeepsEdits ==
    [][(/\ Tick
        /\ current_app_mode # "MODE_SHOW_STATE"
        /\ current_app_mode' = "MODE_SHOW_STATE") =>
          /\ menu_profile_index' = current_profile
          /\ UNCHANGED <<profiles, current_profile, app_start_time,
                         app_start_time_without_shift, flash, saved,
                         current_edit_period_index, current_edit_value,
                         current_top_menu_action, time_shift_hours,
                         last_encoder_time>>]_vars

\* six inputs have led into MODE_EDIT_DURATION and changed the duration of
\* period 0 of profile 0; the idle timeout has then brought back
\* MODE_SHOW_STATE with the edit still in place
C13_Witness ==
    /\ inputs = 6
    /\ current_profile = 0
    /\ profiles[0].periods[0].duration = 900
    /\ current_edit_value = EDIT_DURATION
    /\ current_app_mode = "MODE_SHOW_STATE"
    /\ now - last_encoder_time > IdleTimeoutSeconds

\* C14: the flash sector is written only by a click in MODE_TOP_MENU with
\* current_top_menu_action = TOP_MENU_SAVE: every step that changes the
\* sector (or what it is recorded to hold) is such a click.
C14_OnlySaveClickWritesFlash ==
    [][(flash' # flash \/ saved' # saved) =>
          /\ Click
          /\ current_app_mode = "MODE_TOP_MENU"
          /\ current_top_menu_action = TOP_MENU_SAVE]_vars

\* profile 1 was made the active one and saved from the top menu
C14_Witness ==
    /\ saved.status = "complete"
    /\ flash = SaveImage(1, DefaultProfiles)
    /\ current_app_mode = "MODE_SHOW_STATE"
    /\ last.redraws = 2

\* the light powers the engine yields for the given clock, baselines and
\* active profile
EngineLights(profs, cp, t, start, start_without_shift) ==
    LET st == app_calculate_state(InitialAppState, profs[cp], t, start,
                                  start_without_shift).state
    IN  [white_red |-> st.white_red, blue |-> st.blue]

\* C15: a tick that runs in a mode in which a live preview was written
\* (MODE_EDIT_PERIOD after the click on a period row, MODE_EDIT_WR_LEVEL,
\* MODE_EDIT_BL_LEVEL) leaves in current_app_state, and on the pins, the
\* light powers of the engine for the clock and the active profile.
C15_TickOverwritesPreview ==
    [][(/\ Tick
        /\ current_app_mode \in {"MODE_EDIT_PERIOD", "MODE_EDIT_WR_LEVEL",
                                 "MODE_EDIT_BL_LEVEL"}) =>
          LET e == EngineLights(profiles', current_profile', now',
                                app_start_time', app_start_time_without_shift')
          IN  /\ current_app_state'.white_red = e.white_red
              /\ current_app_state'.blue = e.blue
              /\ pins'.white_red = e.white_red
              /\ pins'.blue = e.blue]_vars

\* C16: every tick, in every mode, evaluates the engine, and after a tick
\* that runs outside the 5-minute run window (with an active profile that
\* has an enabled period) the pump pin is off.
C16_EveryTickEvaluates ==
    [][Tick =>
          /\ last'.calc # "none"
          /\ (/\ LightTotal' > 0
              /\ PumpCyclePosition' >= PUMP_RUN_MINUTES) => ~pins'.pump]_vars


(***************************************************************************)
(* Properties of the encoder handlers                                      *)
(***************************************************************************)

\* the navigation context: mode, selections and the pending time shift
NavigationContext ==
    <<current_app_mode, menu_profile_index, current_edit_period_index,
      current_edit_value, current_top_menu_action, time_shift_hours>>

\* C17: a rotation that leaves the navigation context and the profiles as
\* they were calls app_redraw zero times, and a rotation that changes any of
\* them calls it once.
C17_RedrawOnlyOnChange ==
    [][Rotate =>
          last'.redraws = IF UNCHANGED <<NavigationContext, profiles>>
                          THEN 0 ELSE 1]_vars


\* the encoder counts that reach a handler (a count of 0 returns early)
Turns == Deltas \ {0}

\* C18: a rotation by delta in MODE_SHOW_STATE or MODE_SHOW_PROFILE: when
\* menu_profile_index + delta < 0 the mode becomes MODE_TOP_MENU on SHIFT
\* and menu_profile_index is kept; otherwise menu_profile_index becomes the
\* sum, or 0 when the sum is above 4, and the mode is MODE_SHOW_PROFILE when
\* the new index differs from current_profile and MODE_SHOW_STATE when not.
C18_RotateBrowsesProfiles ==
    [][\A delta \in Turns :
          (/\ current_app_mode \in {"MODE_SHOW_STATE", "MODE_SHOW_PROFILE"}
           /\ RotateBy(delta)) =>
              LET sum == menu_profile_index + delta
              IN  IF sum < 0
                  THEN /\ current_app_mode' = "MODE_TOP_MENU"
                       /\ current_top_menu_action' = TOP_MENU_SHIFT
                       /\ menu_profile_index' = menu_profile_index
                  ELSE /\ menu_profile_index' = (IF sum > 4 THEN 0 ELSE sum)
                       /\ current_app_mode' =
                              IF menu_profile_index' # current_profile'
                              THEN "MODE_SHOW_PROFILE" ELSE "MODE_SHOW_STATE"
                       /\ current_profile' = current_profile]_vars

\* profile 1 was browsed to, then a rotation below 0 opened the top menu and
\* kept the browsed index
C18_Witness ==
    /\ current_app_mode = "MODE_TOP_MENU"
    /\ current_top_menu_action = TOP_MENU_SHIFT
    /\ menu_profile_index = 1
    /\ inputs = 2

\* C19: a rotation by delta in MODE_EDIT_PROFILE keeps
\* current_edit_period_index in -1..5: a sum below -1 becomes 5, a sum above
\* 5 becomes -1, any other sum is taken; the mode and the profiles stay.
C19_RotateEditProfileWraps ==
    /\ [](current_edit_period_index \in -1 .. 5)
    /\ [][\A delta \in Turns :
             (current_app_mode = "MODE_EDIT_PROFILE" /\ RotateBy(delta)) =>
                 LET sum == current_edit_period_index + delta
                 IN  /\ current_edit_period_index' =
                            (IF sum < -1 THEN 5 ELSE IF sum > 5 THEN -1 ELSE sum)
                     /\ current_app_mode' = "MODE_EDIT_PROFILE"
                     /\ profiles' = profiles]_vars

\* the editor was opened on the BACK row (-1) and one rotation downwards put
\* the selection on row 5
C19_Witness ==
    /\ current_app_mode = "MODE_EDIT_PROFILE"
    /\ current_edit_period_index = 5
    /\ inputs = 2

\* C20 as stated: a rotation by delta in MODE_EDIT_PERIOD puts
\* current_edit_value on (old value + delta) mod 4 and keeps the mode.
C20_RotateEditPeriodModulo ==
    [][\A delta \in Turns :
          (current_app_mode = "MODE_EDIT_PERIOD" /\ RotateBy(delta)) =>
              /\ current_edit_value' = (current_edit_value + delta) % 4
              /\ current_app_mode' = "MODE_EDIT_PERIOD"]_vars

\* C20 as amended: a rotation by delta in MODE_EDIT_PERIOD takes the sum
\* old value + delta when it lies in BACK..BL, lands on BL when the sum is
\* below BACK and on BACK when it is above BL; for a single step this is
\* (old value + delta) mod 4; the mode stays MODE_EDIT_PERIOD.
C20_RotateEditPeriodWraps ==
    [][\A delta \in Turns :
          (current_app_mode = "MODE_EDIT_PERIOD" /\ RotateBy(delta)) =>
              LET sum == current_edit_value + delta
              IN  /\ current_edit_value' =
                         (IF sum < EDIT_BACK THEN EDIT_BL_LEVEL
                          ELSE IF sum > EDIT_BL_LEVEL THEN EDIT_BACK ELSE sum)
                  /\ delta \in {-1, 1} => current_edit_value' = sum % 4
                  /\ current_app_mode' = "MODE_EDIT_PERIOD"]_vars

\* a period row was opened (field BACK) and one rotation downwards put the
\* selection on BL
C20_Witness ==
    /\ current_app_mode = "MODE_EDIT_PERIOD"
    /\ current_edit_value = EDIT_BL_LEVEL
    /\ inputs = 4


----------------------------------------------------------------------------
(* SpecEdit: the controller from the period editor, opened after boot      *)

\* the globals as the static initializers of app.c leave them
StaticGlobals ==
    [profiles |-> DefaultProfiles,
     current_profile |-> 0,
     now |-> 0,
     app_start_time |-> 0,
     app_start_time_without_shift |-> 0,
     last_encoder_time |-> 0,
     current_app_state |-> InitialAppState,
     current_app_mode |-> "MODE_SHOW_STATE",
     menu_profile_index |-> 0,
     current_edit_period_index |-> 0,
     current_edit_value |-> EDIT_BACK,
     current_top_menu_action |-> TOP_MENU_SAVE,
     time_shift_hours |-> 0,
     flash |-> ErasedFlash,
     pins |-> [pump |-> FALSE, white_red |-> 0, blue |-> 0],
     phase |-> "init",
     noshift_pump |-> [pump |-> FALSE, pump_minutes_left |-> 0],
     saved |-> [status |-> "none"],
     calc |-> "none", branch |-> "none", redraws |-> 0, load |-> "none"]

\* the log of what a handler did, cleared before the next handler runs
NextHandler(g) ==
    [g EXCEPT !.calc = "none", !.branch = "none", !.redraws = 0, !.load = "none"]

\* the globals after app_init, a click (the profile editor), a rotation to
\* the given row, a click (the period editor) and a rotation to the given
\* field
EditorOpened(row, field) ==
    LET booted == app_init(StaticGlobals)
        editor == app_on_click(NextHandler(booted))
        onRow == app_on_encoder_change(NextHandler(editor), row + 1)
        period == app_on_click(NextHandler(onRow))
    IN  app_on_encoder_change(NextHandler(period), field)

\* the variables start as the globals g, with nothing handled yet by the
\* specification's actions but the given number of inputs
StartsAs(g, handled) ==
    /\ profiles = g.profiles
    /\ current_profile = g.current_profile
    /\ now = g.now
    /\ app_start_time = g.app_start_time
    /\ app_start_time_without_shift = g.app_start_time_without_shift
    /\ last_encoder_time = g.last_encoder_time
    /\ current_app_state = g.current_app_state
    /\ current_app_mode = g.current_app_mode
    /\ menu_profile_index = g.menu_profile_index
    /\ current_edit_period_index = g.current_edit_period_index
    /\ current_edit_value = g.current_edit_value
    /\ current_top_menu_action = g.current_top_menu_action
    /\ time_shift_hours = g.time_shift_hours
    /\ flash = g.flash
    /\ pins = g.pins
    /\ phase = g.phase
    /\ noshift_pump = g.noshift_pump
    /\ saved = g.saved
    /\ last = Did(g.calc, g.branch, g.redraws, 0, g.load)
    /\ inputs = handled
    /\ button = ButtonAtReset

InitEdit ==
    \E row \in PeriodIds : \E field \in EDIT_FIRST .. EDIT_LAST :
        StartsAs(EditorOpened(row, field), MaxInputs - MaxEditInputs)

NextEdit == Tick \/ Rotate \/ Click

SpecEdit == InitEdit /\ [][NextEdit]_vars

----------------------------------------------------------------------------
(* Properties of the value editors                                         *)

\* the period selected in the editor
EditedPeriod == profiles[current_profile].periods[current_edit_period_index]

\* min(hi, max(lo, v))
Clamped(v, lo, hi) == IF v < lo THEN lo ELSE IF v > hi THEN hi ELSE v

\* C21: a rotation by delta in MODE_EDIT_DURATION sets the duration of the
\* selected period to min(1440, max(0, duration + 60 * delta)), and every
\* duration stays in 0..1440.
C21_RotateEditDurationClamps ==
    /\ [](\A p \in ProfileIds : \A i \in PeriodIds :
             profiles[p].periods[i].duration \in 0 .. 1440)
    /\ [][\A delta \in Turns :
             (current_app_mode = "MODE_EDIT_DURATION" /\ RotateBy(delta)) =>
                 /\ EditedPeriod'.duration =
                        Clamped(EditedPeriod.duration + 60 * delta, 0, 1440)
                 /\ current_app_mode' = "MODE_EDIT_DURATION"]_vars

\* the 840 minutes of the first period were turned down by one hour twice
C21_Witness ==
    /\ current_app_mode = "MODE_EDIT_DURATION"
    /\ current_edit_period_index = 0
    /\ EditedPeriod.duration = 720


\* the pins carry the pump flag and the two powers of current_app_state
PinsShowState ==
    /\ pins.pump = current_app_state.pump
    /\ pins.white_red = current_app_state.white_red
    /\ pins.blue = current_app_state.blue

\* C22: a rotation by delta in MODE_EDIT_WR_LEVEL (MODE_EDIT_BL_LEVEL) sets
\* the white-red (blue) power of the selected period to
\* min(100, max(0, power + 5 * delta)), writes that value to
\* current_app_state.white_red (blue) whether or not the stored power
\* changed, and applies current_app_state to the pins in the same call.
C22_RotateEditLevelPreviews ==
    [][\A delta \in Turns :
          /\ (current_app_mode = "MODE_EDIT_WR_LEVEL" /\ RotateBy(delta)) =>
                 LET level == Clamped(EditedPeriod.led_white_red_power + 5 * delta,
                                      0, 100)
                 IN  /\ EditedPeriod'.led_white_red_power = level
                     /\ current_app_state'.white_red = level
                     /\ PinsShowState'
          /\ (current_app_mode = "MODE_EDIT_BL_LEVEL" /\ RotateBy(delta)) =>
                 LET level == Clamped(EditedPeriod.led_blue_power + 5 * delta,
                                      0, 100)
                 IN  /\ EditedPeriod'.led_blue_power = level
                     /\ current_app_state'.blue = level
                     /\ PinsShowState']_vars

\* the white-red power of the first period was turned down from 100 to 95
\* and the pin follows
C22_Witness ==
    /\ current_app_mode = "MODE_EDIT_WR_LEVEL"
    /\ current_edit_period_index = 0
    /\ EditedPeriod.led_white_red_power = 95
    /\ current_app_state.white_red = 95
    /\ pins.white_red = 95


----------------------------------------------------------------------------
(* Properties of the top menu and of the clicks                            *)

\* C23: a rotation by delta in MODE_TOP_MENU: when current_top_menu_action +
\* delta is below SHIFT the controller returns to browsing, on profile 0, in
\* MODE_SHOW_PROFILE when that index differs from current_profile and in
\* MODE_SHOW_STATE when not; when the sum is above FLASH the action becomes
\* SHIFT; otherwise the action is the sum; in both the mode stays.
C23_RotateTopMenu ==
    [][\A delta \in Turns :
          (current_app_mode = "MODE_TOP_MENU" /\ RotateBy(delta)) =>
              LET sum == current_top_menu_action + delta
              IN  IF sum < TOP_MENU_SHIFT
                  THEN /\ menu_profile_index' = 0
                       /\ current_app_mode' =
                              IF menu_profile_index' # current_profile'
                              THEN "MODE_SHOW_PROFILE" ELSE "MODE_SHOW_STATE"
                       /\ current_top_menu_action' = current_top_menu_action
                  ELSE /\ current_top_menu_action' =
                              (IF sum > TOP_MENU_FLASH THEN TOP_MENU_SHIFT ELSE sum)
                       /\ current_app_mode' = "MODE_TOP_MENU"
                       /\ menu_profile_index' = menu_profile_index]_vars

\* the top menu was opened on SHIFT and two single steps led to RELOAD
C23_Witness ==
    /\ current_app_mode = "MODE_TOP_MENU"
    /\ current_top_menu_action = TOP_MENU_RELOAD
    /\ inputs = 3


\* C24: a click in MODE_SHOW_PROFILE on a profile other than the active one
\* makes it the active one, returns to MODE_SHOW_STATE, evaluates the engine
\* for the new profile and applies the result to the pins, all in that call;
\* the profiles are unchanged.
C24_ClickSelectsProfile ==
    [][(/\ Click
        /\ current_app_mode = "MODE_SHOW_PROFILE"
        /\ menu_profile_index # current_profile) =>
          /\ current_profile' = menu_profile_index
          /\ current_app_mode' = "MODE_SHOW_STATE"
          /\ last'.calc # "none"
          /\ current_app_state' =
                 app_calculate_state(current_app_state, profiles[menu_profile_index],
                                     now, app_start_time,
                                     app_start_time_without_shift).state
          /\ PinsShowState'
          /\ profiles' = profiles]_vars

\* the empty profile 3 was browsed to and selected: the lights went out
C24_Witness ==
    /\ current_profile = 3
    /\ current_app_mode = "MODE_SHOW_STATE"
    /\ last.calc = "changed"
    /\ pins.white_red = 0
    /\ inputs = 4


\* C25: a click in MODE_SHOW_STATE opens MODE_EDIT_PROFILE on row -1; a
\* click in MODE_EDIT_PROFILE on row -1 returns to MODE_SHOW_STATE, and on a
\* row i in 0..5 opens MODE_EDIT_PERIOD on the field BACK, writes the stored
\* powers of period i to current_app_state and applies it to the pins.
C25_ClickOpensEditors ==
    [][Click =>
          /\ current_app_mode = "MODE_SHOW_STATE" =>
                 /\ current_app_mode' = "MODE_EDIT_PROFILE"
                 /\ current_edit_period_index' = -1
          /\ (current_app_mode = "MODE_EDIT_PROFILE"
                 /\ current_edit_period_index = -1) =>
                 current_app_mode' = "MODE_SHOW_STATE"
          /\ (current_app_mode = "MODE_EDIT_PROFILE"
                 /\ current_edit_period_index \in PeriodIds) =>
                 /\ current_app_mode' = "MODE_EDIT_PERIOD"
                 /\ current_edit_value' = EDIT_BACK
                 /\ current_edit_period_index' = current_edit_period_index
                 /\ current_app_state'.white_red = EditedPeriod.led_white_red_power
                 /\ current_app_state'.blue = EditedPeriod.led_blue_power
                 /\ PinsShowState']_vars

\* the dark second period of the default profile was opened while the
\* first one is running: the lights follow the opened row
C25_Witness ==
    /\ current_app_mode = "MODE_EDIT_PERIOD"
    /\ current_edit_value = EDIT_BACK
    /\ current_edit_period_index = 1
    /\ current_app_state.period_index = 0
    /\ pins.white_red = profiles[0].periods[1].led_white_red_power
    /\ pins.white_red # profiles[0].periods[0].led_white_red_power
    /\ inputs = 4


\* C26: a click in MODE_TOP_MENU on SAVE leaves in the sector the magic, the
\* active index and the profiles held in memory, then MODE_SHOW_STATE with
\* menu_profile_index = current_profile; profiles, current_profile and both
\* baselines are as before the click.
C26_ClickSaves ==
    [][(/\ Click
        /\ current_app_mode = "MODE_TOP_MENU"
        /\ current_top_menu_action = TOP_MENU_SAVE) =>
          /\ MagicValid(flash')
          /\ BytesToInt(flash'.current_profile) = current_profile
          /\ LoadedProfiles(flash') = profiles
          /\ current_app_mode' = "MODE_SHOW_STATE"
          /\ menu_profile_index' = current_profile
          /\ UNCHANGED <<profiles, current_profile, app_start_time,
                         app_start_time_without_shift>>]_vars

\* profile 2 was made the active one and saved; the message has been shown
\* for two seconds and the state screen is back
C26_Witness ==
    /\ saved.status = "complete"
    /\ MagicValid(flash)
    /\ BytesToInt(flash.current_profile) = 2
    /\ current_profile = 2
    /\ LoadedProfiles(flash) = profiles
    /\ current_app_mode = "MODE_SHOW_STATE"
    /\ now = last_encoder_time + MessageSeconds


\* C27: a click on SHIFT in MODE_TOP_MENU opens MODE_TIME_SHIFT with
\* time_shift_hours = 0; a click in MODE_TIME_SHIFT returns to MODE_TOP_MENU
\* and, when time_shift_hours is not 0, adds that many hours to
\* app_start_time, keeps app_start_time_without_shift and evaluates the
\* engine in the same call; when it is 0 both baselines, current_app_state
\* and the pins stay. No other step moves app_start_time, so a shift is
\* applied once.
C27_ClickTimeShift ==
    /\ [][Click =>
             /\ (current_app_mode = "MODE_TOP_MENU"
                    /\ current_top_menu_action = TOP_MENU_SHIFT) =>
                    /\ current_app_mode' = "MODE_TIME_SHIFT"
                    /\ time_shift_hours' = 0
                    /\ UNCHANGED <<app_start_time, app_start_time_without_shift>>
             /\ current_app_mode = "MODE_TIME_SHIFT" =>
                    /\ current_app_mode' = "MODE_TOP_MENU"
                    /\ app_start_time_without_shift' = app_start_time_without_shift
                    /\ IF time_shift_hours # 0
                       THEN /\ app_start_time' =
                                   app_start_time + time_shift_hours * 60 * 60
                            /\ last'.calc # "none"
                       ELSE /\ UNCHANGED <<app_start_time, current_app_state, pins>>
                            /\ last'.calc = "none"]_vars
    /\ [][app_start_time' # app_start_time =>
             /\ Click
             /\ current_app_mode = "MODE_TIME_SHIFT"
             /\ time_shift_hours # 0]_vars

\* a shift of one hour back was confirmed: the shiftable baseline moved by
\* an hour, the pump baseline did not
C27_Witness ==
    /\ current_app_mode = "MODE_TOP_MENU"
    /\ time_shift_hours = -1
    /\ app_start_time = -3600
    /\ app_start_time_without_shift = 0
    /\ last.calc # "none"


----------------------------------------------------------------------------
(* SpecButton: the passes of the main loop after boot, the encoder at      *)
(* rest, the button read from PIN_BUTTON at every pass                     *)

\* milliseconds from one pass to the next: sleep_ms(50) and the time the
\* pass itself takes, short or with a redraw of the display
PassTimes == {51, 120}

\* the debounce of main on the locals b, for the level read from PIN_BUTTON:
\* the new locals, and whether app_on_click is called
PollButton(b, level) ==
    IF level # b.last_button_state
    THEN [locals |-> [b EXCEPT !.last_button_state = level, !.last_changed = b.ms],
          click |-> FALSE]
    ELSE IF b.last_changed # 0 /\ b.ms - b.last_changed > DEBOUNCE_MS
    THEN [locals |-> [b EXCEPT !.last_changed = 0],
          click |-> b.last_button_state = 0]
    ELSE [locals |-> b, click |-> FALSE]

InitButton == StartsAs(app_init(StaticGlobals), 0)

\* one pass of the loop: the button, app_on_click when the debounce says so,
\* app_tick, and the sleep
Pass ==
    /\ phase = "run"
    /\ button.passes < MaxPasses
    /\ \E level \in {0, 1} : \E dt \in PassTimes :
          LET polled == PollButton(button, level)
              clicked == IF polled.click THEN app_on_click(Globals) ELSE Globals
              g == app_tick(clicked)
          IN  /\ CommitGlobals(g, IF g.calc = "none" THEN 0
                                  ELSE IF last.evals < 2 THEN last.evals + 1 ELSE 2)
              /\ button' =
                     [polled.locals EXCEPT
                         !.ms = @ + dt,
                         !.pin = level,
                         !.level_since = IF button.passes > 0 /\ level = button.pin
                                         THEN @ ELSE button.ms,
                         !.clicks = IF polled.click THEN @ + 1 ELSE @,
                         !.fired = IF polled.click THEN TRUE
                                   ELSE IF level # button.last_button_state THEN FALSE
                                   ELSE @,
                         !.passes = @ + 1]
    /\ UNCHANGED inputs

NextButton == Pass

SpecButton == InitButton /\ [][NextButton]_vars

----------------------------------------------------------------------------
(* Properties of the button                                                *)

\* the step is a pass that calls app_on_click
ClickDelivered == button'.clicks > button.clicks

\* C28: the loop calls app_on_click at most once for a press, calls it in
\* the pass that reads the button released again (level 1) after it was read
\* pressed (level 0), not in a pass that still reads it pressed, and only
\* when the pressed level was read for longer than DEBOUNCE_MS.
C28_ClickOncePerPressOnRelease ==
    /\ [][ClickDelivered => ~button.fired]_vars
    /\ [][ClickDelivered => (button.pin = 0 /\ button'.pin = 1)]_vars
    /\ [][ClickDelivered =>
             button.ms - button.level_since > DEBOUNCE_MS]_vars


----------------------------------------------------------------------------
(* Properties of the pins and of the shifted clock                         *)

\* C29: after every handler (app_tick, app_on_encoder_change, app_on_click)
\* the pump pin and the two PWM levels are those of current_app_state: no
\* handler changes current_app_state without applying it.
C29_PinsFollowOutputState == phase = "run" => PinsShowState


\* C30: the click that applies a shift of h hours leaves the engine at the
\* light-schedule position (minutes elapsed since the old baseline - 60 * h)
\* modulo the profile total, for every h in -23..23 and every elapsed time,
\* also when the shift is longer than the time elapsed.
C30_ShiftedPositionIsModular ==
    [][(/\ Click
        /\ current_app_mode = "MODE_TIME_SHIFT"
        /\ time_shift_hours # 0
        /\ LightTotal > 0) =>
          LightPosition(ElapsedMinutes(now', app_start_time'), LightTotal') =
              (((now - app_start_time) \div 60) - 60 * time_shift_hours) % LightTotal]_vars


----------------------------------------------------------------------------
(* Properties of the selections                                            *)

\* the modes of the profile editor and of the period editors
EditModes ==
    {"MODE_EDIT_PROFILE", "MODE_EDIT_PERIOD", "MODE_EDIT_DURATION",
     "MODE_EDIT_WR_LEVEL", "MODE_EDIT_BL_LEVEL"}

\* C31: in every state menu_profile_index is in 0..4; in MODE_SHOW_STATE and
\* in every edit mode it equals current_profile, and in MODE_SHOW_PROFILE it
\* differs from current_profile.
C31_BrowsedIndexMatchesMode ==
    /\ menu_profile_index \in ProfileIds
    /\ current_app_mode = "MODE_SHOW_STATE" => menu_profile_index = current_profile
    /\ current_app_mode = "MODE_SHOW_PROFILE" => menu_profile_index # current_profile
    /\ current_app_mode \in EditModes => menu_profile_index = current_profile

\* profile 1 was browsed to, made the active one and opened in the period
\* editor
C31_Witness ==
    /\ current_app_mode = "MODE_EDIT_PERIOD"
    /\ current_profile = 1
    /\ menu_profile_index = 1


\* the modes that read or write periods[current_edit_period_index]
PeriodModes ==
    {"MODE_EDIT_PERIOD", "MODE_EDIT_DURATION", "MODE_EDIT_WR_LEVEL",
     "MODE_EDIT_BL_LEVEL"}

\* C32: in every state whose mode is MODE_EDIT_PERIOD, MODE_EDIT_DURATION,
\* MODE_EDIT_WR_LEVEL or MODE_EDIT_BL_LEVEL, current_edit_period_index is one
\* of the six period slots 0..5 and never the BACK value -1.
C32_EditedPeriodInsideArray ==
    current_app_mode \in PeriodModes => current_edit_period_index \in PeriodIds

\* the row list was left downwards over BACK, which wraps to the last row,
\* and the duration editor of that row was opened
C32_Witness ==
    /\ current_app_mode = "MODE_EDIT_DURATION"
    /\ current_edit_period_index = MAX_PERIODS - 1


----------------------------------------------------------------------------
(* Properties of the engine's change flag                                  *)

\* C33: an evaluation returns true if and only if at least one field of the
\* output state (period_index, white_red, blue, pump, pump_minutes_left,
\* period_minutes_left) differs after it from its value before; a change of
\* the pump fields alone is reported too.
C33_ChangeFlagExact ==
    [][(last'.calc = "changed") <=> (current_app_state' # current_app_state)]_vars

\* the first evaluation found the dark second period as the output state
\* already had it, switched the running pump off and reported a change
C33_Witness ==
    /\ last.evals = 1
    /\ last.calc = "changed"
    /\ last.branch = "in_period"
    /\ current_app_state.period_index = 1
    /\ current_app_state.white_red = 0
    /\ current_app_state.blue = 0
    /\ current_app_state.period_minutes_left = 940
    /\ noshift_pump.pump
    /\ ~current_app_state.pump


----------------------------------------------------------------------------
(* Properties of the in-memory profiles                                    *)

\* the field of a period each value editor writes
EditedField ==
    [MODE_EDIT_DURATION |-> "duration",
     MODE_EDIT_WR_LEVEL |-> "led_white_red_power",
     MODE_EDIT_BL_LEVEL |-> "led_blue_power"]

\* the step changes nothing of the profiles but the given field of the
\* selected period of the active profile
OnlyEditedFieldChanges(field) ==
    profiles' =
        [profiles EXCEPT ![current_profile].periods[current_edit_period_index][field] =
            profiles'[current_profile].periods[current_edit_period_index][field]]

\* C34: a step changes the in-memory profiles only if it is a rotation in
\* MODE_EDIT_DURATION, MODE_EDIT_WR_LEVEL or MODE_EDIT_BL_LEVEL, which changes
\* nothing but the matching field of period current_edit_period_index of the
\* active profile, or if it is a successful load; every other rotation, every
\* click that loads nothing and every tick, the idle timeout included, leave
\* all five profiles as they are.
C34_OnlyValueEditorsChangeProfiles ==
    [][profiles' # profiles =>
          \/ last'.load = "loaded"
          \/ /\ current_app_mode \in DOMAIN EditedField
             /\ OnlyEditedFieldChanges(EditedField[current_app_mode])
             /\ \E delta \in Turns : RotateBy(delta)]_vars

\* one step down in the blue level editor of the first period: the blue
\* power of that period is all that differs from the profiles before
C34_Witness ==
    /\ current_app_mode = "MODE_EDIT_BL_LEVEL"
    /\ profiles = [DefaultProfiles EXCEPT ![0].periods[0].led_blue_power = 95]

=============================================================================
